---- MODULE Spec2Model ----
(***************************************************************************)
(* Applying / separating classification of Moon aspects, as computed by    *)
(* the investigation scripts of codexhorary/backend:                       *)
(*   investigate_moon_aspects.py, simple_moon_investigation.py,            *)
(*   investigate_separating_moon.py.                                       *)
(*                                                                         *)
(* Angles and speeds are fixed-point integers: one unit is 1/100000 of a   *)
(* degree (of a degree per day for speeds).  Every speed of the model is a *)
(* multiple of 10 units, so the product speed * 0.1 is exact.              *)
(***************************************************************************)
EXTENDS Integers, Sequences, FiniteSets, TLC

\* 360 degrees and 180 degrees in model units (the literals of the
\* normalisation loops).
FULL == 36000000
HALF == 18000000
\* One degree.
Deg == FULL \div 360
\* time_increment = 0.1 day, as the rational 1 / TimeIncrementDen.
TimeIncrementDen == 10
\* The caller's orb filter, "orb <= 8.0".
OrbLimit == 8 * Deg

\* ---- bounds of the explored input grid ----
\* Speeds are k * SpeedStep for k in -MaxSpeed..MaxSpeed.
MaxSpeed == 2
\* Moon longitudes lie k * FineStep off a key angle, k in -FineCount..FineCount.
FineCount == 2
\* Whole turns added to an angle before it is normalised: -MaxTurns..MaxTurns.
MaxTurns == 2

SpeedStep == 5 * Deg
FineStep == Deg \div 2

\* Mutant: the absolute value is not taken.
AbsMissing(x) == x

Abs(x) == IF x < 0 THEN -x ELSE x

\* Python's float % 360: the result has the sign of the divisor.
PyMod(x, m) == x % m

\* Mutant: the projection runs a whole day ahead.
TimesWholeDay(v) == v

\* x * 0.1 (x * time_increment)
TimesIncrement(v) == v \div TimeIncrementDen

\* Mutant: the subtraction is the wrong way round.
RelativeSpeedReversed(lead_speed, other_speed) == other_speed - lead_speed

\* relative_speed = lead speed - other speed
RelativeSpeed(lead_speed, other_speed) == lead_speed - other_speed

\* ---- the normalisation loops ----
RECURSIVE WhileAbove(_)
WhileAbove(x) == IF x > HALF THEN WhileAbove(x - FULL) ELSE x

RECURSIVE WhileBelow(_)
WhileBelow(x) == IF x < -HALF THEN WhileBelow(x + FULL) ELSE x

\* Mutant: the second loop is missing.
NormalizeNoLowerLoop(x) == WhileAbove(x)

\* Mutant: "if" instead of "while", one turn is taken off at most.
NormalizeOnce(x) ==
  IF x > HALF THEN x - FULL ELSE IF x < -HALF THEN x + FULL ELSE x

\* while x > 180: x -= 360 ; while x < -180: x += 360
Normalize(x) == WhileBelow(WhileAbove(x))

\* Mutant: the extra candidates are never added.
TargetsNoExtend(d) == <<d, -d>>

\* targets = [d, -d]; extended by [d - 360, -d + 360] unless d is 0 or 180.
Targets(d) ==
  IF d # 0 /\ d # HALF THEN <<d, -d, d - FULL, -d + FULL>> ELSE <<d, -d>>

\* Mutant: the last minimal element wins instead of the first.
MinByDistanceLast(targets, sep) ==
  LET key(i) == Abs(sep - targets[i])
      idx == CHOOSE i \in 1..Len(targets) :
               /\ \A j \in 1..Len(targets) : key(i) <= key(j)
               /\ \A j \in (i+1)..Len(targets) : key(j) > key(i)
  IN targets[idx]

\* min(targets, key=lambda t: abs(sep - t)): the first minimal element.
MinByDistance(targets, sep) ==
  LET key(i) == Abs(sep - targets[i])
      idx == CHOOSE i \in 1..Len(targets) :
               /\ \A j \in 1..Len(targets) : key(i) <= key(j)
               /\ \A j \in 1..(i-1) : key(j) > key(i)
  IN targets[idx]

\* Mutant: non-strict comparison.
OrbDecreasesOrEqual(future_orb, current_orb) == future_orb <= current_orb

\* future_orb < current_orb
OrbDecreases(future_orb, current_orb) == future_orb < current_orb

\* Mutant: the closest target is resolved again at the projected time.
calculate_authoritative_reresolving(mlon, plon, mspeed, pspeed, degrees) ==
  LET raw_sep == mlon - plon
      current_sep == Normalize(raw_sep)
      targets == Targets(degrees)
      closest_target == MinByDistance(targets, current_sep)
      current_orb == Abs(current_sep - closest_target)
      relative_speed == RelativeSpeed(mspeed, pspeed)
      raw_future == current_sep + TimesIncrement(relative_speed)
      future_sep == Normalize(raw_future)
      future_orb == Abs(future_sep - MinByDistance(targets, future_sep))
  IN [raw_sep |-> raw_sep, current_sep |-> current_sep, targets |-> targets,
      closest_target |-> closest_target, current_orb |-> current_orb,
      relative_speed |-> relative_speed, raw_future |-> raw_future,
      future_sep |-> future_sep, future_orb |-> future_orb,
      applying |-> OrbDecreases(future_orb, current_orb)]

\* ---- investigate_moon_aspects.calculate_authoritative_applying ----
calculate_authoritative_applying(mlon, plon, mspeed, pspeed, degrees) ==
  LET raw_sep == mlon - plon
      current_sep == Normalize(raw_sep)
      targets == Targets(degrees)
      closest_target == MinByDistance(targets, current_sep)
      current_orb == Abs(current_sep - closest_target)
      relative_speed == RelativeSpeed(mspeed, pspeed)
      raw_future == current_sep + TimesIncrement(relative_speed)
      future_sep == Normalize(raw_future)
      future_orb == Abs(future_sep - closest_target)
  IN [raw_sep |-> raw_sep, current_sep |-> current_sep, targets |-> targets,
      closest_target |-> closest_target, current_orb |-> current_orb,
      relative_speed |-> relative_speed, raw_future |-> raw_future,
      future_sep |-> future_sep, future_orb |-> future_orb,
      applying |-> OrbDecreases(future_orb, current_orb)]

\* ---- simple_moon_investigation.analyze_current_system_logic ----
analyze_current_system_logic(mlon, plon, mspeed, pspeed, degrees) ==
  LET moon_faster == Abs(mspeed) > Abs(pspeed)
      faster_lon == IF moon_faster THEN mlon ELSE plon
      slower_lon == IF moon_faster THEN plon ELSE mlon
      faster_speed == IF moon_faster THEN mspeed ELSE pspeed
      slower_speed == IF moon_faster THEN pspeed ELSE mspeed
      raw_sep == faster_lon - slower_lon
      separation == Normalize(raw_sep)
      targets == Targets(degrees)
      closest_target == MinByDistance(targets, separation)
      current_orb == Abs(separation - closest_target)
      relative_speed == RelativeSpeed(faster_speed, slower_speed)
      raw_future == separation + TimesIncrement(relative_speed)
      future_separation == Normalize(raw_future)
      future_orb == Abs(future_separation - closest_target)
  IN [moon_faster |-> moon_faster, raw_sep |-> raw_sep,
      current_sep |-> separation, targets |-> targets,
      closest_target |-> closest_target, current_orb |-> current_orb,
      relative_speed |-> relative_speed, raw_future |-> raw_future,
      future_sep |-> future_separation, future_orb |-> future_orb,
      applying |-> OrbDecreases(future_orb, current_orb)]

\* Mutant: a separation above 180 is not folded back.
FoldedSeparationNoFold(a, b) == Abs(a - b)

\* separation = abs(a - b); if separation > 180: separation = 360 - separation
FoldedSeparation(a, b) ==
  LET separation == Abs(a - b)
  IN IF separation > HALF THEN FULL - separation ELSE separation

\* Mutant: the future positions are not advanced by the bodies' speeds.
SimpleFutureSeparationStatic(mlon, plon, mspeed, pspeed) ==
  FoldedSeparation(mlon, plon)

\* Mutant: only the Moon is advanced, the planet stays where it is.
SimpleFutureSeparationMoonOnly(mlon, plon, mspeed, pspeed) ==
  FoldedSeparation(PyMod(mlon + TimesIncrement(mspeed), FULL), plon)

\* future_moon = (moon_lon + moon_speed * 0.1) % 360, likewise the planet, then
\* the folded separation of the two.
SimpleFutureSeparation(mlon, plon, mspeed, pspeed) ==
  LET future_moon == PyMod(mlon + TimesIncrement(mspeed), FULL)
      future_planet == PyMod(plon + TimesIncrement(pspeed), FULL)
  IN FoldedSeparation(future_moon, future_planet)

\* ---- simple_moon_investigation.analyze_aspect_logic: the body of the loop
\* over planets and aspects, for one planet and one aspect.  in_orb is the
\* filter "if orb <= 8.0"; the methods run only under it.
analyze_aspect_logic(mlon, plon, mspeed, pspeed, degrees) ==
  LET separation == FoldedSeparation(mlon, plon)
      orb == Abs(separation - degrees)
      \* Method 1: simple
      relative_speed == RelativeSpeed(mspeed, pspeed)
      future_sep == SimpleFutureSeparation(mlon, plon, mspeed, pspeed)
      current_orb == Abs(separation - degrees)
      future_orb == Abs(future_sep - degrees)
      simple_applying == OrbDecreases(future_orb, current_orb)
      \* Method 2: derivative
      moon_to_planet == Normalize(mlon - plon)
      targets == Targets(degrees)
      closest_target == MinByDistance(targets, moon_to_planet)
      current_dist == Abs(moon_to_planet - closest_target)
      future_moon_to_planet == moon_to_planet + TimesIncrement(relative_speed)
      future_dist == Abs(future_moon_to_planet - closest_target)
      derivative_applying == OrbDecreases(future_dist, current_dist)
      current_system_applying ==
        analyze_current_system_logic(mlon, plon, mspeed, pspeed, degrees).applying
  IN [in_orb |-> orb <= OrbLimit, separation |-> separation, orb |-> orb,
      relative_speed |-> relative_speed, future_sep |-> future_sep,
      future_orb |-> future_orb, moon_to_planet |-> moon_to_planet,
      closest_target |-> closest_target, current_dist |-> current_dist,
      future_moon_to_planet |-> future_moon_to_planet, future_dist |-> future_dist,
      simple_method |-> simple_applying,
      derivative_method |-> derivative_applying,
      current_system |-> current_system_applying,
      agreement |-> (simple_applying = derivative_applying
                     /\ derivative_applying = current_system_applying)]

\* ---- investigate_separating_moon.analyze_separating_moon_chart: the body of
\* the loop over test_cases, for one planet and one aspect.
analyze_separating_moon_chart(mlon, plon, mspeed, pspeed, degrees) ==
  LET separation == FoldedSeparation(mlon, plon)
      orb == Abs(separation - degrees)
      \* Method 1
      relative_speed == RelativeSpeed(mspeed, pspeed)
      future_sep == SimpleFutureSeparation(mlon, plon, mspeed, pspeed)
      current_orb == Abs(separation - degrees)
      future_orb == Abs(future_sep - degrees)
      simple_applying == OrbDecreases(future_orb, current_orb)
      \* Method 2
      moon_faster == Abs(mspeed) > Abs(pspeed)
      faster_lon == IF moon_faster THEN mlon ELSE plon
      slower_lon == IF moon_faster THEN plon ELSE mlon
      faster_speed == IF moon_faster THEN mspeed ELSE pspeed
      slower_speed == IF moon_faster THEN pspeed ELSE mspeed
      separation_signed == Normalize(faster_lon - slower_lon)
      targets == Targets(degrees)
      closest_target == MinByDistance(targets, separation_signed)
      current_orb_enhanced == Abs(separation_signed - closest_target)
      future_separation_signed ==
        Normalize(separation_signed
                  + TimesIncrement(RelativeSpeed(faster_speed, slower_speed)))
      future_orb_enhanced == Abs(future_separation_signed - closest_target)
      enhanced_applying == OrbDecreases(future_orb_enhanced, current_orb_enhanced)
      \* Method 3: orb_rate_of_change = (future_orb - current_orb) / 0.1
      orb_rate_of_change == (future_orb - current_orb) * TimeIncrementDen
      derivative_applying == orb_rate_of_change < 0
      methods_agree == (simple_applying = enhanced_applying
                        /\ enhanced_applying = derivative_applying)
  IN [separation |-> separation, orb |-> orb, relative_speed |-> relative_speed,
      moon_faster |-> moon_faster,
      separation_signed |-> separation_signed, closest_target |-> closest_target,
      current_orb |-> current_orb, future_orb |-> future_orb,
      current_orb_enhanced |-> current_orb_enhanced,
      future_separation_signed |-> future_separation_signed,
      future_orb_enhanced |-> future_orb_enhanced,
      orb_rate_of_change |-> orb_rate_of_change,
      simple_applying |-> simple_applying,
      enhanced_applying |-> enhanced_applying,
      derivative_applying |-> derivative_applying,
      methods_agree |-> methods_agree,
      chart_correct |-> ~simple_applying]

\* ---- horary_engine.aspects, which the scripts import: modelled from the
\* specification's Geometry Kernel (4.1), Trend Estimator (4.2) and Policy
\* Variants (4.3).
normalizeSigned(angle) ==
  LET r == angle % FULL
  IN IF r > HALF THEN r - FULL ELSE r

resolveTargets(d) ==
  IF d = 0 \/ d = HALF
    THEN {normalizeSigned(d), normalizeSigned(-d)}
    ELSE {normalizeSigned(t) : t \in {d, -d, d - FULL, -d + FULL}}

Sign(x) == IF x > 0 THEN 1 ELSE IF x < 0 THEN -1 ELSE 0

\* argmin of |separation - t|; a tie goes to the target with the sign of the
\* separation (to the non-negative one when the separation is 0).
closestTarget(separation, targetSet) ==
  LET best == {t \in targetSet :
                 \A u \in targetSet : Abs(separation - t) <= Abs(separation - u)}
      same == {t \in best : Sign(t) = Sign(separation)}
  IN IF same # {} THEN CHOOSE t \in same : TRUE
     ELSE CHOOSE t \in best : \A u \in best : u <= t

estimateApplying(lead_lon, other_lon, lead_speed, other_speed, d) ==
  LET signedSeparation0 == normalizeSigned(lead_lon - other_lon)
      target0 == closestTarget(signedSeparation0, resolveTargets(d))
      orb0 == Abs(signedSeparation0 - target0)
      relativeSpeed == lead_speed - other_speed
      signedSeparation1 ==
        normalizeSigned(signedSeparation0 + TimesIncrement(relativeSpeed))
      orb1 == Abs(signedSeparation1 - target0)
  IN [signedSeparationDegrees |-> signedSeparation0,
      closestTargetDegrees |-> target0, currentOrbDegrees |-> orb0,
      relativeSpeedDegreesPerDay |-> relativeSpeed, projectedOrbDegrees |-> orb1,
      applying |-> orb1 < orb0]

\* Enhanced method: lead = the body with the larger |speed|; the Moon when equal.
is_applying_enhanced(mlon, plon, mspeed, pspeed, d) ==
  IF Abs(mspeed) >= Abs(pspeed)
    THEN estimateApplying(mlon, plon, mspeed, pspeed, d).applying
    ELSE estimateApplying(plon, mlon, pspeed, mspeed, d).applying

\* Distinguished-body method: the Moon leads, moving at the speed s handed in.
is_moon_applying_to_aspect(mlon, plon, pspeed, d, s) ==
  estimateApplying(mlon, plon, s, pspeed, d).applying

\* Mutant: separating only when the orb strictly grows.
is_moon_separating_strict(mlon, plon, pspeed, d, s) ==
  LET e == estimateApplying(mlon, plon, s, pspeed, d)
  IN e.projectedOrbDegrees > e.currentOrbDegrees

\* Separating: the orb is non-decreasing over the time step (glossary).
is_moon_separating_from_aspect(mlon, plon, pspeed, d, s) ==
  LET e == estimateApplying(mlon, plon, s, pspeed, d)
  IN e.projectedOrbDegrees >= e.currentOrbDegrees

\* ---- investigate_moon_aspects.calculate_raw_moon_aspect_status ----
calculate_raw_moon_aspect_status(mlon, plon, mspeed, pspeed, degrees) ==
  LET current_applying == is_applying_enhanced(mlon, plon, mspeed, pspeed, degrees)
      moon_applying == is_moon_applying_to_aspect(mlon, plon, pspeed, degrees, mspeed)
      moon_separating ==
        is_moon_separating_from_aspect(mlon, plon, pspeed, degrees, mspeed)
      auth_applying ==
        calculate_authoritative_applying(mlon, plon, mspeed, pspeed, degrees).applying
      current_separation == FoldedSeparation(mlon, plon)
      orb_from_exact == Abs(current_separation - degrees)
  IN [aspect_degrees |-> degrees, moon_longitude |-> mlon, planet_longitude |-> plon,
      moon_speed |-> mspeed, planet_speed |-> pspeed,
      current_separation |-> current_separation, orb_from_exact |-> orb_from_exact,
      current_system_applying |-> current_applying,
      moon_specific_applying |-> moon_applying,
      moon_specific_separating |-> moon_separating,
      authoritative_applying |-> auth_applying,
      relative_speed |-> RelativeSpeed(mspeed, pspeed),
      will_perfect_in_future |-> auth_applying]

\* ---- the charts the scripts carry (longitudes and speeds to 4 decimals) ----
\* simple_moon_investigation.ae016_data
ae016_data ==
  [moon    |-> [longitude |-> 29959560, speed |-> 1193260],
   mercury |-> [longitude |-> 24080360, speed |-> 138270],
   venus   |-> [longitude |-> 21669970, speed |-> 117590],
   mars    |-> [longitude |-> 31182960, speed |-> 77260],
   jupiter |-> [longitude |-> 2514950,  speed |-> -3120]]

\* investigate_separating_moon.chart_data
chart_data ==
  [moon    |-> [longitude |-> 7157310,  speed |-> 1412660],
   mercury |-> [longitude |-> 12649530, speed |-> 73060],
   mars    |-> [longitude |-> 18659980, speed |-> 63370],
   jupiter |-> [longitude |-> 10512090, speed |-> 19860]]

\* aspects = {sextile: 60, square: 90, trine: 120, opposition: 180, conjunction: 0}
aspects == {60 * Deg, 90 * Deg, 120 * Deg, 180 * Deg, 0}

\* test_cases = [('mercury', 'sextile', 60), ('mars', 'trine', 120)]
test_cases == {<<"mercury", 60 * Deg>>, <<"mars", 120 * Deg>>}

\* ---- the explored inputs ----
Speeds == {k * SpeedStep : k \in -MaxSpeed..MaxSpeed}
KeyAngles == aspects \cup {FULL - a : a \in aspects \ {0}}
MoonLongitudes ==
  {PyMod(a + k * FineStep, FULL) : a \in KeyAngles, k \in -FineCount..FineCount}
PlanetLongitudes == {0, HALF, 300 * Deg}

Input(mlon, plon, mspeed, pspeed, d) ==
  [moon_lon |-> mlon, planet_lon |-> plon, moon_speed |-> mspeed,
   planet_speed |-> pspeed, aspect_degrees |-> d]

GridInputs ==
  [moon_lon : MoonLongitudes, planet_lon : PlanetLongitudes,
   moon_speed : Speeds, planet_speed : Speeds, aspect_degrees : aspects]

ChartInputs ==
  {Input(ae016_data.moon.longitude, ae016_data[p].longitude,
         ae016_data.moon.speed, ae016_data[p].speed, d) :
     p \in DOMAIN ae016_data \ {"moon"}, d \in aspects}
  \cup
  {Input(chart_data.moon.longitude, chart_data[p].longitude,
         chart_data.moon.speed, chart_data[p].speed, d) :
     p \in DOMAIN chart_data \ {"moon"}, d \in aspects}

Inputs == GridInputs \cup ChartInputs

\* ---- state ----
VARIABLES
  moon_lon, planet_lon, moon_speed, planet_speed, aspect_degrees,
  pc,        \* "input" before a procedure has run, then the procedure's name
  auth,      \* locals and result of calculate_authoritative_applying
  cur,       \* locals and result of analyze_current_system_logic
  logic,     \* one iteration of analyze_aspect_logic
  chart,     \* one iteration of analyze_separating_moon_chart
  raw,       \* the dictionary of calculate_raw_moon_aspect_status
  results    \* test_scenario's list of results

inputs == <<moon_lon, planet_lon, moon_speed, planet_speed, aspect_degrees>>
vars == <<moon_lon, planet_lon, moon_speed, planet_speed, aspect_degrees,
          pc, auth, cur, logic, chart, raw, results>>

NotCalled == [called |-> FALSE]
Called(rec) == [called |-> TRUE] @@ rec

Init ==
  /\ \E inp \in Inputs :
       /\ moon_lon = inp.moon_lon
       /\ planet_lon = inp.planet_lon
       /\ moon_speed = inp.moon_speed
       /\ planet_speed = inp.planet_speed
       /\ aspect_degrees = inp.aspect_degrees
  /\ pc = "input"
  /\ auth = NotCalled
  /\ cur = NotCalled
  /\ logic = NotCalled
  /\ chart = NotCalled
  /\ raw = NotCalled
  /\ results = << >>

CalculateAuthoritativeApplying ==
  /\ pc = "input"
  /\ auth' = Called(calculate_authoritative_applying(
                      moon_lon, planet_lon, moon_speed, planet_speed, aspect_degrees))
  /\ pc' = "calculate_authoritative_applying"
  /\ UNCHANGED <<inputs, cur, logic, chart, raw, results>>

AnalyzeCurrentSystemLogic ==
  /\ pc = "input"
  /\ cur' = Called(analyze_current_system_logic(
                     moon_lon, planet_lon, moon_speed, planet_speed, aspect_degrees))
  /\ pc' = "analyze_current_system_logic"
  /\ UNCHANGED <<inputs, auth, logic, chart, raw, results>>

\* One iteration of the loops of analyze_aspect_logic; nothing is computed
\* for a pair outside the 8 degree orb.
AnalyzeAspectLogic ==
  /\ pc = "input"
  /\ LET r == analyze_aspect_logic(
                moon_lon, planet_lon, moon_speed, planet_speed, aspect_degrees)
     IN /\ r.in_orb
        /\ logic' = Called(r)
  /\ pc' = "analyze_aspect_logic"
  /\ UNCHANGED <<inputs, auth, cur, chart, raw, results>>

\* One iteration of the loop of analyze_separating_moon_chart.
AnalyzeSeparatingMoonChart ==
  /\ pc = "input"
  /\ chart' = Called(analyze_separating_moon_chart(
                       moon_lon, planet_lon, moon_speed, planet_speed, aspect_degrees))
  /\ pc' = "analyze_separating_moon_chart"
  /\ UNCHANGED <<inputs, auth, cur, logic, raw, results>>

CalculateRawMoonAspectStatus ==
  /\ pc = "input"
  /\ raw' = Called(calculate_raw_moon_aspect_status(
                     moon_lon, planet_lon, moon_speed, planet_speed, aspect_degrees))
  /\ pc' = "calculate_raw_moon_aspect_status"
  /\ UNCHANGED <<inputs, auth, cur, logic, chart, results>>

\* One iteration of the aspect loop of test_scenario: a pair within the
\* 8 degree orb is analysed and its result appended.
TestScenario ==
  /\ pc = "input"
  /\ LET current_separation == FoldedSeparation(moon_lon, planet_lon)
         orb_from_exact == Abs(current_separation - aspect_degrees)
     IN /\ orb_from_exact <= OrbLimit
        /\ results' = Append(results,
             calculate_raw_moon_aspect_status(
               moon_lon, planet_lon, moon_speed, planet_speed, aspect_degrees))
  /\ pc' = "test_scenario"
  /\ UNCHANGED <<inputs, auth, cur, logic, chart, raw>>

Next ==
  \/ CalculateAuthoritativeApplying
  \/ AnalyzeCurrentSystemLogic
  \/ AnalyzeAspectLogic
  \/ AnalyzeSeparatingMoonChart
  \/ CalculateRawMoonAspectStatus
  \/ TestScenario

Spec == Init /\ [][Next]_vars

\* ======================= properties =======================

Range(seq) == {seq[i] : i \in DOMAIN seq}
InHalfOpen(x) == -HALF < x /\ x <= HALF
InClosed(x) == -HALF <= x /\ x <= HALF
\* The normalisation of angle to r, as the code performs it: same angle modulo
\* 360, inside [-180, 180], and -180 only for the input -180 itself.
NormalizedAs(angle, r) ==
  /\ InClosed(r)
  /\ (r - angle) % FULL = 0
  /\ (angle = HALF => r = HALF)
  /\ (r = -HALF <=> angle = -HALF)
\* "about v": within a hundredth of a degree.
About(x, v) == Abs(x - v) <= Deg \div 100

\* C1 as stated: every signed separation the two procedures normalise, the
\* longitude difference and the projected separation, lies in (-180, 180];
\* -180 is never produced.
C1_NormalizedHalfOpen ==
  /\ auth.called => InHalfOpen(auth.current_sep) /\ InHalfOpen(auth.future_sep)
  /\ cur.called => InHalfOpen(cur.current_sep) /\ InHalfOpen(cur.future_sep)

\* C1 amended: every normalised separation lies in the closed range
\* [-180, 180] and is the input modulo 360; +180 stays +180 and -180 stays
\* -180 (the value -180 is produced, exactly for the input -180).
C1_NormalizedClosed ==
  /\ auth.called => /\ NormalizedAs(auth.raw_sep, auth.current_sep)
                    /\ NormalizedAs(auth.raw_future, auth.future_sep)
  /\ cur.called => /\ NormalizedAs(cur.raw_sep, cur.current_sep)
                   /\ NormalizedAs(cur.raw_future, cur.future_sep)

\* C1 witness: the Moon exactly 180 degrees behind the planet; the difference
\* -180 comes out of the normalisation as -180.
C1_Witness ==
  /\ auth.called
  /\ auth.raw_sep = -HALF
  /\ auth.current_sep = -HALF

\* The closed form of the specification's numeric note, on the inputs of the
\* state: the relative speed points opposite the signed offset from the target.
ClosedForm(r) ==
  Sign(moon_speed - planet_speed) # Sign(r.current_sep - r.closest_target)

\* C2 as stated: away from orb 0 the projection's result equals the closed
\* form, for every input.
C2_ClosedFormEverywhere ==
  auth.called /\ auth.current_orb # 0 => (auth.applying <=> ClosedForm(auth))

\* The step of the projection: (moon speed - planet speed) * 0.1 day.
Step == TimesIncrement(moon_speed - planet_speed)
\* The cases in which the projection is a derivative estimate: the bodies
\* move relative to one another, the step is shorter than twice the current
\* orb, and the projected separation stays inside [-180, 180].
SmallStep(r) ==
  /\ moon_speed # planet_speed
  /\ Abs(Step) < 2 * r.current_orb
  /\ InClosed(r.current_sep + Step)

\* C2 amended: away from orb 0, with a relative speed other than 0, a step
\* shorter than twice the current orb and a projection that does not wrap
\* past +/-180, the projection's result equals the closed form.
C2_ClosedFormSmallStep ==
  auth.called /\ auth.current_orb # 0 /\ SmallStep(auth)
    => (auth.applying <=> ClosedForm(auth))

\* C2 witness: a small step toward the target, classified applying.
C2_Witness ==
  /\ auth.called
  /\ auth.current_orb # 0
  /\ SmallStep(auth)
  /\ auth.applying
  /\ ClosedForm(auth)

\* C3: the enhanced method (faster body leads) returns what the authoritative
\* method (Moon leads) returns, for every input.
C3_LeadSwapAgrees ==
  cur.called =>
    cur.applying = calculate_authoritative_applying(
                     moon_lon, planet_lon, moon_speed, planet_speed,
                     aspect_degrees).applying

C5_ExactAspect ==
  /\ auth.called /\ auth.current_sep = auth.closest_target
       => auth.current_orb = 0 /\ auth.applying = FALSE
  /\ cur.called /\ cur.current_sep = cur.closest_target
       => cur.current_orb = 0 /\ cur.applying = FALSE

\* C5 witness: an exact aspect between bodies in relative motion.
C5_Witness ==
  /\ auth.called
  /\ auth.current_sep = auth.closest_target
  /\ auth.relative_speed # 0
  /\ auth.current_orb = 0
  /\ ~auth.applying

TargetsAsBuilt(T, d) ==
  /\ d = 0 => T = {0}
  /\ d = HALF => T = {HALF, -HALF} /\ Cardinality(T) = 2
  /\ d # 0 /\ d # HALF =>
       /\ Cardinality(T) = 4
       /\ {t \in T : InHalfOpen(t)} = {d, -d}

\* C6 as stated: the targets built for an aspect are one distinct value for
\* 0 and 180, and two distinct values, both in (-180, 180], otherwise.
C6_TargetSymmetry ==
  auth.called =>
    LET T == Range(auth.targets)
    IN IF aspect_degrees \in {0, HALF}
         THEN Cardinality(T) = 1
         ELSE Cardinality(T) = 2 /\ \A t \in T : InHalfOpen(t)

\* C6 amended: the targets built are one distinct value for aspect 0, the two
\* values 180 and -180 for aspect 180, and four distinct values for an aspect
\* d strictly between 0 and 180, of which exactly d and -d lie in (-180, 180].
C6_TargetsAsBuilt ==
  /\ auth.called => TargetsAsBuilt(Range(auth.targets), aspect_degrees)
  /\ cur.called => TargetsAsBuilt(Range(cur.targets), aspect_degrees)

\* C6 witness: the four candidates of a sextile.
C6_Witness ==
  /\ auth.called
  /\ aspect_degrees = 60 * Deg
  /\ Cardinality(Range(auth.targets)) = 4

IsCase(data, p, d) ==
  /\ moon_lon = data.moon.longitude
  /\ moon_speed = data.moon.speed
  /\ planet_lon = data[p].longitude
  /\ planet_speed = data[p].speed
  /\ aspect_degrees = d

\* C8: scenario 2.  Moon sextile Mercury: signed separation about -54.92,
\* closest target -60, current orb about 5.08, projected orb larger, and the
\* simple, enhanced and derivative methods all return applying = false, so
\* the methods agree and the chart's mark is correct.  Moon trine Mars: the
\* same, with target -120.
C8_Scenario2 ==
  /\ chart.called /\ IsCase(chart_data, "mercury", 60 * Deg) =>
       /\ chart.moon_faster
       /\ About(chart.separation_signed, -5492000)
       /\ chart.closest_target = -60 * Deg
       /\ About(chart.current_orb_enhanced, 508000)
       /\ About(chart.current_orb, 508000)
       /\ chart.future_orb_enhanced > chart.current_orb_enhanced
       /\ chart.future_orb > chart.current_orb
       /\ ~chart.simple_applying /\ ~chart.enhanced_applying
       /\ ~chart.derivative_applying
       /\ chart.methods_agree /\ chart.chart_correct
  /\ chart.called /\ IsCase(chart_data, "mars", 120 * Deg) =>
       /\ chart.moon_faster
       /\ chart.closest_target = -120 * Deg
       /\ chart.future_orb_enhanced > chart.current_orb_enhanced
       /\ chart.future_orb > chart.current_orb
       /\ ~chart.simple_applying /\ ~chart.enhanced_applying
       /\ ~chart.derivative_applying
       /\ chart.methods_agree /\ chart.chart_correct

\* C8 witness: the Moon-Mercury sextile of the chart has been analysed.
C8_Witness ==
  /\ chart.called
  /\ IsCase(chart_data, "mercury", 60 * Deg)
  /\ <<"mercury", aspect_degrees>> \in test_cases
  /\ ~chart.simple_applying

\* C9: scenario 1.  Moon trine Venus of the AE-016 chart: signed separation
\* about 82.90, closest target +120, current orb about 37.10, projected orb
\* about 36.02, applying = true.
C9_Scenario1 ==
  cur.called /\ IsCase(ae016_data, "venus", 120 * Deg) =>
    /\ cur.moon_faster
    /\ About(cur.current_sep, 8290000)
    /\ cur.closest_target = 120 * Deg
    /\ About(cur.current_orb, 3710000)
    /\ About(cur.future_orb, 3602000)
    /\ cur.applying = TRUE

\* C9 witness: the procedure has run on scenario 1 and answered applying.
C9_Witness ==
  /\ cur.called
  /\ IsCase(ae016_data, "venus", 120 * Deg)
  /\ cur.applying

\* C10: inside the 8 degree orb the simple, derivative and current-system
\* methods return the same value.
C10_MethodsAgreeInOrb ==
  logic.called =>
    /\ logic.simple_method = logic.derivative_method
    /\ logic.derivative_method = logic.current_system

\* The whole turns tried, and the normalisations a state holds: each angle
\* with the value the procedure normalised it to.
Turns == -MaxTurns..MaxTurns
Normalizations ==
  (IF auth.called
     THEN {<<auth.raw_sep, auth.current_sep>>, <<auth.raw_future, auth.future_sep>>}
     ELSE {})
  \cup
  (IF cur.called
     THEN {<<cur.raw_sep, cur.current_sep>>, <<cur.raw_future, cur.future_sep>>}
     ELSE {})

\* C11 as stated: normalising a + 360k gives what normalising a gave, for
\* every angle a the procedures normalise and every integer k.
C11_Periodic ==
  \A n \in Normalizations : \A k \in Turns :
    Normalize(n[1] + k * FULL) = n[2]

\* C11 amended: normalising a + 360k gives what normalising a gave for every
\* angle a that is not an odd multiple of 180; an odd multiple of 180 gives
\* +180 when it is positive and -180 when it is negative, so 180 and -180 do
\* not share a representative.
C11_PeriodicOffBoundary ==
  \A n \in Normalizations : \A k \in Turns :
    IF (n[1] - HALF) % FULL # 0
      THEN Normalize(n[1] + k * FULL) = n[2]
      ELSE /\ Normalize(n[1] + k * FULL)
                = (IF n[1] + k * FULL > 0 THEN HALF ELSE -HALF)
           /\ n[2] = (IF n[1] > 0 THEN HALF ELSE -HALF)

\* C11 witness: a separation of 300 degrees has been normalised to -60, as
\* the same angle two turns further on is.
C11_Witness ==
  /\ auth.called
  /\ auth.raw_sep = 300 * Deg
  /\ auth.current_sep = -60 * Deg
  /\ Normalize(auth.raw_sep + 2 * FULL) = auth.current_sep

\* C12 as stated: the current orb and the projected orb, measured against the
\* target fixed at the current time, both lie in [0, 180].
C12_OrbsWithinHalfTurn ==
  /\ auth.called => auth.current_orb \in 0..HALF /\ auth.future_orb \in 0..HALF
  /\ cur.called => cur.current_orb \in 0..HALF /\ cur.future_orb \in 0..HALF

\* C12 amended: the current orb lies in [0, 180]; the projected orb, measured
\* against the target fixed at the current time, lies in [0, 360] and exceeds
\* 180 when the projected separation ends on the far side of that target.
C12_OrbRanges ==
  /\ auth.called => auth.current_orb \in 0..HALF /\ auth.future_orb \in 0..FULL
  /\ cur.called => cur.current_orb \in 0..HALF /\ cur.future_orb \in 0..FULL

\* C12 witness: half a degree past conjunction, aspect 180, moving back
\* through the conjunction without wrapping: the projected orb is 180.5.
C12_Witness ==
  /\ auth.called
  /\ auth.future_sep = auth.raw_future
  /\ auth.current_orb <= HALF
  /\ auth.future_orb > HALF
  /\ auth.future_orb = Abs(auth.future_sep - auth.closest_target)

\* The candidates at minimal distance from the separation of a result.
Closest(r) ==
  {t \in Range(r.targets) :
     \A u \in Range(r.targets) :
       Abs(r.current_sep - t) <= Abs(r.current_sep - u)}
\* Two distinct candidates are equally close.
Tie(r) == Cardinality(Closest(r)) > 1
Reverse(seq) == [i \in 1..Len(seq) |-> seq[Len(seq) + 1 - i]]

\* C13: at a tie between two distinct candidates the target chosen has the
\* sign of the separation, and listing the candidates in the opposite order
\* gives the same choice.
C13_TieBreakBySign ==
  /\ auth.called /\ Tie(auth) =>
       /\ Sign(auth.closest_target) = Sign(auth.current_sep)
       /\ MinByDistance(Reverse(auth.targets), auth.current_sep)
            = auth.closest_target
  /\ cur.called /\ Tie(cur) =>
       /\ Sign(cur.closest_target) = Sign(cur.current_sep)
       /\ MinByDistance(Reverse(cur.targets), cur.current_sep)
            = cur.closest_target

\* C14: the projected orb is measured against the target that was selected as
\* closest to the current separation, and the result compares that orb with
\* the current one; the target is not selected again at the projected time.
C14_ResolveOnce ==
  /\ auth.called =>
       /\ auth.closest_target = MinByDistance(auth.targets, auth.current_sep)
       /\ auth.future_orb = Abs(auth.future_sep - auth.closest_target)
       /\ auth.applying = (auth.future_orb < auth.current_orb)
  /\ cur.called =>
       /\ cur.closest_target = MinByDistance(cur.targets, cur.current_sep)
       /\ cur.future_orb = Abs(cur.future_sep - cur.closest_target)
       /\ cur.applying = (cur.future_orb < cur.current_orb)
  /\ chart.called =>
       /\ chart.future_orb_enhanced
            = Abs(chart.future_separation_signed - chart.closest_target)
       /\ chart.enhanced_applying
            = (chart.future_orb_enhanced < chart.current_orb_enhanced)

\* C14 witness: the Moon crosses the conjunction, so another candidate is
\* closer to the projected separation than the fixed target, and the
\* projected orb is still measured against the fixed one.
C14_Witness ==
  /\ auth.called
  /\ MinByDistance(auth.targets, auth.future_sep) # auth.closest_target
  /\ Abs(auth.future_sep - MinByDistance(auth.targets, auth.future_sep))
       < Abs(auth.future_sep - auth.closest_target)
  /\ auth.future_orb = Abs(auth.future_sep - auth.closest_target)

\* C15: the candidate selected as closest is always d or -d, never d - 360
\* or 360 - d, in every procedure that selects one.
C15_InRangeCandidateSelected ==
  LET Own == {aspect_degrees, -aspect_degrees}
  IN /\ auth.called => auth.closest_target \in Own
     /\ cur.called => cur.closest_target \in Own
     /\ logic.called => logic.closest_target \in Own
     /\ chart.called => chart.closest_target \in Own

\* C15 witness: at separation -180 the candidates -d and d - 360 of a sextile
\* are equally close, and -d is the one selected.
C15_Witness ==
  /\ auth.called
  /\ aspect_degrees = 60 * Deg
  /\ auth.current_sep = -HALF
  /\ Closest(auth) = {-60 * Deg, 60 * Deg - FULL}
  /\ auth.closest_target = -60 * Deg

\* C16: the orb of the caller's filter, taken from the unsigned folded
\* separation, equals the current orb of the signed procedure, with the Moon
\* as lead and with the faster body as lead.
C16_FilterOrbIsCurrentOrb ==
  /\ raw.called =>
       /\ raw.orb_from_exact
            = calculate_authoritative_applying(
                moon_lon, planet_lon, moon_speed, planet_speed,
                aspect_degrees).current_orb
       /\ raw.orb_from_exact
            = analyze_current_system_logic(
                moon_lon, planet_lon, moon_speed, planet_speed,
                aspect_degrees).current_orb
  /\ \A i \in DOMAIN results :
       results[i].orb_from_exact
         = calculate_authoritative_applying(
             moon_lon, planet_lon, moon_speed, planet_speed,
             aspect_degrees).current_orb
  /\ chart.called => chart.orb = chart.current_orb_enhanced
  /\ logic.called => logic.orb = logic.current_dist

\* C16 witness: Moon at 300.5, planet at 0, sextile: the raw difference is
\* folded from 300.5 to 59.5, and both orbs are half a degree.
C16_Witness ==
  /\ raw.called
  /\ Abs(moon_lon - planet_lon) > HALF
  /\ raw.orb_from_exact = FineStep
  /\ calculate_authoritative_applying(
       moon_lon, planet_lon, moon_speed, planet_speed,
       aspect_degrees).current_orb = FineStep

====
